---- MODULE Spec2Model ----
(***************************************************************************)
(* A model of unrasterize/classes.py: the three unrasterizer classes       *)
(* (NaiveUnrasterizer, Unrasterizer, WindowedUnrasterizer), the helpers of *)
(* BaseUnrasterizer they share, and the GeoJSON export.                    *)
(*                                                                         *)
(* Cell values are small integers.  A value produced by the reweighting    *)
(* step  val * total / total_selected  is kept as the exact fraction       *)
(* [num |-> val * total, den |-> total_selected]; a fraction with den = 0  *)
(* is what numpy returns for a division by a zero float32 (nan or +-inf,   *)
(* with a RuntimeWarning and no exception).                                *)
(***************************************************************************)
EXTENDS Integers, Sequences, FiniteSets, TLC

\* ------------------------------------------------------------------ bounds
MaxCells == 3        \* a band holds at most this many cells
MaxH == 2            \* and at most this many rows
MaxVal == 2          \* cell values range over -1 .. MaxVal
MaxMaskWidth == 2    \* mask_width ranges over 0 .. MaxMaskWidth
MaxWindow == 2       \* each entry of window_shape ranges over 1 .. MaxWindow
MaxExtent == 4       \* the rasters that are only cut into windows: up to this wide and high
MaxCalls == 2        \* calls of select_representative_pixels on one instance

\* Unrasterizer.__init__(mask_width, threshold=1.0)
DefaultThreshold == 1

Values == (0 - 1) .. MaxVal
Thresholds == (0 - 1) .. DefaultThreshold
Shapes == {s \in (1 .. MaxH) \X (1 .. MaxCells) : s[1] * s[2] <= MaxCells}

\* ----------------------------------------------------------------- helpers
Max(a, b) == IF a >= b THEN a ELSE b
Min(a, b) == IF a <= b THEN a ELSE b
Abs(a) == IF a >= 0 THEN a ELSE 0 - a

RECURSIVE SumSeq(_)
SumSeq(s) == IF s = <<>> THEN 0 ELSE Head(s) + SumSeq(Tail(s))

RECURSIVE SumOver(_, _)
\* the sum of f[x] over the finite set S
SumOver(f, S) ==
    IF S = {} THEN 0
    ELSE LET x == CHOOSE y \in S : TRUE IN f[x] + SumOver(f, S \ {x})

RECURSIVE Concat(_)
\* [x for xs in lists for x in xs]
Concat(lists) == IF lists = <<>> THEN <<>> ELSE Head(lists) \o Concat(Tail(lists))

\* ------------------------------------------------------------ numpy arrays
\* A 2-D array: [shape |-> <<n_rows, n_cols>>, at |-> [<<row, col>> -> value]]
Cells(shape) == (0 .. shape[1] - 1) \X (0 .. shape[2] - 1)
Array(shape, f) == [shape |-> shape, at |-> f]
Bands == UNION {{Array(s, f) : f \in [Cells(s) -> Values]} : s \in Shapes}

\* np.sum(band[band > 0.0])
SumPositive(band, cells) ==
    SumOver([p \in cells |-> IF band.at[p] > 0 THEN band.at[p] ELSE 0], cells)

\* np.ravel(band)[i], 0-based and row-major
Ravel(band, i) == band.at[<<i \div band.shape[2], i % band.shape[2]>>]

\* np.argsort(np.ravel(band)): the flat indexes in ascending order of value.  On
\* arrays this small numpy's default sort is an insertion sort, so equal values keep
\* their flat-index order.
ArgSort(band) ==
    LET n == band.shape[1] * band.shape[2]
        before(j, i) == \/ Ravel(band, j) < Ravel(band, i)
                        \/ Ravel(band, j) = Ravel(band, i) /\ j < i
        rank(i) == Cardinality({j \in 0 .. n - 1 : before(j, i)})
    IN  [p \in 1 .. n |-> CHOOSE i \in 0 .. n - 1 : rank(i) = p - 1]

\* _sort_pixels without the [::-1]: ascending order
SortPixelsAscending(band) ==
    LET n == band.shape[1] * band.shape[2]
        asc == ArgSort(band)
    IN  [p \in 1 .. n |->
            LET i == asc[p] IN <<i \div band.shape[2], i % band.shape[2]>>]

\* BaseUnrasterizer._sort_pixels: argsort, reversed, unravelled to (row, col)
SortPixels(band) ==
    LET n == band.shape[1] * band.shape[2]
        asc == ArgSort(band)
    IN  [p \in 1 .. n |->
            LET i == asc[n + 1 - p] IN <<i \div band.shape[2], i % band.shape[2]>>]

\* The indexes a Python slice(start, stop) takes from an axis of length n
SliceIndices(start, stop, n) ==
    LET norm(x) == IF x < 0 THEN Max(x + n, 0) ELSE Min(x, n)
    IN  {i \in 0 .. n - 1 : norm(start) <= i /\ i < norm(stop)}

\* _get_pixel_window that starts the rectangle at the pixel instead of width before it
GetPixelWindowFromPixel(pixel, width, height) ==
    LET min_row == Max(pixel[1], 0)
        min_col == Max(pixel[2], 0)
        max_row == pixel[1] + width
        max_col == pixel[2] + height
    IN  [rows |-> <<min_row, max_row>>, cols |-> <<min_col, max_col>>]

\* Unrasterizer._get_pixel_window(pixel, width, height)
GetPixelWindow(pixel, width, height) ==
    LET min_row == Max(pixel[1] - width, 0)
        min_col == Max(pixel[2] - height, 0)
        max_row == pixel[1] + width
        max_col == pixel[2] + height
    IN  [rows |-> <<min_row, max_row>>, cols |-> <<min_col, max_col>>]

\* The cells of an array of the given shape that array[row_slice, col_slice] addresses
WindowCells(sl, shape) ==
    SliceIndices(sl.rows[1], sl.rows[2], shape[1])
        \X SliceIndices(sl.cols[1], sl.cols[2], shape[2])

\* ------------------------------------------------------- value reweighting
\* _reassign_pixel_values with total = np.sum(band), negative cells included
ReassignPixelValuesSumAll(band, pixels, raw_pixel_values) ==
    LET raw == IF raw_pixel_values = <<>>
               THEN [i \in 1 .. Len(pixels) |-> band.at[pixels[i]]]
               ELSE raw_pixel_values
        total == SumOver(band.at, Cells(band.shape))
        total_selected == SumSeq(raw)
    IN  [i \in 1 .. Len(raw) |-> [num |-> raw[i] * total, den |-> total_selected]]

\* BaseUnrasterizer._reassign_pixel_values(band, pixels, raw_pixel_values=[])
ReassignPixelValues(band, pixels, raw_pixel_values) ==
    LET raw == IF raw_pixel_values = <<>>
               THEN [i \in 1 .. Len(pixels) |-> band.at[pixels[i]]]
               ELSE raw_pixel_values
        total == SumPositive(band, Cells(band.shape))
        total_selected == SumSeq(raw)
    IN  [i \in 1 .. Len(raw) |-> [num |-> raw[i] * total, den |-> total_selected]]

\* rasterio.transform.xy(transform, rows, cols) for the north-up transform
\* Affine(a, 0, c, 0, e, f): the centre of the pixel, in half-pixel units
Transform == [a |-> 2, c |-> 100, e |-> 0 - 2, f |-> 200]
XY(transform, row, col) ==
    <<transform.a * col + (transform.a \div 2) + transform.c,
      transform.e * row + (transform.e \div 2) + transform.f>>

\* BaseUnrasterizer._get_coordinates(transform, pixels, row_offset, col_offset)
GetCoordinates(transform, pixels, row_offset, col_offset) ==
    [i \in 1 .. Len(pixels) |->
        XY(transform, pixels[i][1] + row_offset, pixels[i][2] + col_offset)]

\* ------------------------------------------------------------------ state
VARIABLES
    raster_data,   \* the open raster: its single band (height, width = band.shape)
    self,          \* the unrasterizer: its class, parameters and attributes
    pc,            \* "idle" | "loop" | "pool" | "done" | "raised"
    raised,        \* the exception that ended the latest call, or "none"
    calls,         \* calls of select_representative_pixels begun so far
    sorted_pixels, \* Unrasterizer: the local sorted_pixels of the running call
    idx,           \* Unrasterizer: the 0-based position of the loop in sorted_pixels
    window_shape,  \* WindowedUnrasterizer: the window_shape argument
    windows,       \* WindowedUnrasterizer: the local list of windows of the running call
    results,       \* WindowedUnrasterizer: one entry per window task of executor.map
    exported       \* what the latest to_geojson / to_geopandas call gave back

vars == <<raster_data, self, pc, raised, calls, sorted_pixels, idx,
          window_shape, windows, results, exported>>

\* BaseUnrasterizer.__init__ and the subclasses' __init__
NewUnrasterizer(cls, n_pixels, mask_width, threshold) ==
    [cls |-> cls,
     n_pixels |-> n_pixels,
     mask_width |-> mask_width,
     threshold |-> threshold,
     mask |-> <<>>,
     selected_indexes |-> <<>>,
     selected_pixels |-> <<>>,
     selected_values |-> <<>>,
     selected_coords |-> <<>>,
     raw_pixel_values |-> <<>>]

NoExport == [status |-> "none", features |-> <<>>]

\* The instances of the classes that select over one whole band
Instances ==
    {NewUnrasterizer("BaseUnrasterizer", 0, 0, 0)}
    \cup {NewUnrasterizer("NaiveUnrasterizer", k, 0, 0) : k \in 0 .. MaxCells}
    \cup {NewUnrasterizer("Unrasterizer", 0, w, t) :
            w \in 0 .. MaxMaskWidth, t \in Thresholds}

WindowedInstances ==
    {NewUnrasterizer("WindowedUnrasterizer", 0, w, t) :
        w \in 0 .. MaxMaskWidth, t \in Thresholds}

InitRest ==
    /\ pc = "idle"
    /\ raised = "none"
    /\ calls = 0
    /\ sorted_pixels = <<>>
    /\ idx = 0
    /\ windows = <<>>
    /\ results = <<>>
    /\ exported = NoExport

\* A raster, and a BaseUnrasterizer, NaiveUnrasterizer or Unrasterizer on it
Init ==
    /\ raster_data \in Bands
    /\ self \in Instances
    /\ window_shape = <<1, 1>>
    /\ InitRest

\* A raster, a WindowedUnrasterizer on it, and the window_shape of its call
InitWindowed ==
    /\ raster_data \in Bands
    /\ self \in WindowedInstances
    /\ window_shape \in (1 .. MaxWindow) \X (1 .. MaxWindow)
    /\ InitRest

\* A raster of which only the extent matters (every cell 0), a
\* WindowedUnrasterizer and a window_shape: the inputs of _get_windows
ExtentRasters ==
    {Array(s, [p \in Cells(s) |-> 0]) : s \in (1 .. MaxExtent) \X (1 .. MaxExtent)}

InitWindows ==
    /\ raster_data \in ExtentRasters
    /\ self = NewUnrasterizer("WindowedUnrasterizer", 0, 1, DefaultThreshold)
    /\ window_shape \in (1 .. MaxWindow) \X (1 .. MaxWindow)
    /\ InitRest

\* Between calls.  Only Unrasterizer carries state from one call of
\* select_representative_pixels into the next (it appends to its lists), so it
\* is followed through MaxCalls calls; the other classes assign their
\* attributes whole and are followed through one.
AtRest == pc \in {"idle", "done", "raised"}
CanCall == AtRest /\ calls < (IF self.cls = "Unrasterizer" THEN MaxCalls ELSE 1)

\* ------------------------------------------------------- BaseUnrasterizer
\* BaseUnrasterizer.select_representative_pixels: raise NotImplementedError
BaseSelect ==
    /\ self.cls = "BaseUnrasterizer"
    /\ CanCall
    /\ calls' = calls + 1
    /\ pc' = "raised"
    /\ raised' = "NotImplementedError"
    /\ exported' = NoExport
    /\ UNCHANGED <<raster_data, self, sorted_pixels, idx, window_shape, windows, results>>

\* The features to_geojson builds from zip(selected_coords, selected_values)
Features(coords, values) ==
    [i \in 1 .. Min(Len(coords), Len(values)) |->
        [id |-> i - 1, geometry |-> coords[i], value |-> values[i]]]

\* to_geojson without the check for an empty selection
ToGeojsonResultUnchecked(u) ==
    [status |-> "FeatureCollection",
     features |-> Features(u.selected_coords, u.selected_values)]

\* BaseUnrasterizer.to_geojson
ToGeojsonResult(u) ==
    IF Len(u.selected_coords) = 0
    THEN [status |-> "RuntimeError", features |-> <<>>]
    ELSE [status |-> "FeatureCollection",
          features |-> Features(u.selected_coords, u.selected_values)]

ToGeojson ==
    /\ AtRest
    /\ exported' = ToGeojsonResult(self)
    /\ UNCHANGED <<raster_data, self, pc, raised, calls, sorted_pixels, idx,
                   window_shape, windows, results>>

\* BaseUnrasterizer.to_geopandas: to_geojson, then GeoDataFrame.from_features
ToGeopandas ==
    /\ AtRest
    /\ LET feature_collection == ToGeojsonResult(self)
       IN  exported' =
             IF feature_collection.status = "RuntimeError" THEN feature_collection
             ELSE [status |-> "GeoDataFrame", features |-> feature_collection.features]
    /\ UNCHANGED <<raster_data, self, pc, raised, calls, sorted_pixels, idx,
                   window_shape, windows, results>>

\* ------------------------------------------------------ NaiveUnrasterizer
\* NaiveUnrasterizer.select_representative_pixels.  Indexing sorted_pixels with
\* an index past its end raises IndexError after _selected_indexes was assigned.
NaiveSelect ==
    /\ self.cls = "NaiveUnrasterizer"
    /\ CanCall
    /\ calls' = calls + 1
    /\ exported' = NoExport
    /\ LET band == raster_data
           sorted == SortPixels(band)
           indexes == [i \in 1 .. self.n_pixels |-> i - 1]
       IN  IF self.n_pixels > Len(sorted)
           THEN /\ self' = [self EXCEPT !.selected_indexes = indexes]
                /\ pc' = "raised"
                /\ raised' = "IndexError"
           ELSE LET pixels == [i \in 1 .. self.n_pixels |-> sorted[indexes[i] + 1]]
                IN  /\ self' = [self EXCEPT
                          !.selected_indexes = indexes,
                          !.selected_pixels = pixels,
                          !.selected_values = ReassignPixelValues(band, pixels, <<>>),
                          !.selected_coords = GetCoordinates(Transform, pixels, 0, 0)]
                    /\ pc' = "done"
                    /\ raised' = "none"
    /\ UNCHANGED <<raster_data, sorted_pixels, idx, window_shape, windows, results>>

\* ----------------------------------------------------------- Unrasterizer
\* _select_next_pixel without the assignment self.mask[row_slice, col_slice] = False
SelectNextPixelKeepMask(u, band, pixel, i) ==
    LET sl == GetPixelWindow(pixel, u.mask_width, u.mask_width)
        window == WindowCells(sl, band.shape)
    IN  [u EXCEPT
            !.selected_indexes = Append(@, i),
            !.selected_pixels = Append(@, pixel),
            !.raw_pixel_values = Append(@, SumPositive(band, window))]

\* Unrasterizer._select_next_pixel(band, pixel, idx) on the instance u
SelectNextPixel(u, band, pixel, i) ==
    LET sl == GetPixelWindow(pixel, u.mask_width, u.mask_width)
        window == WindowCells(sl, band.shape)
    IN  [u EXCEPT
            !.selected_indexes = Append(@, i),
            !.selected_pixels = Append(@, pixel),
            !.mask = [p \in DOMAIN @ |-> IF p \in window THEN FALSE ELSE @[p]],
            !.raw_pixel_values = Append(@, SumPositive(band, window))]

\* One iteration of the loop over enumerate(sorted_pixels)
VisitPixel(u, band, pixel, i) ==
    IF u.mask[pixel] THEN SelectNextPixel(u, band, pixel, i) ELSE u

\* The mask as band >= self.threshold
InitMaskAtLeast(u, band) ==
    [u EXCEPT !.mask = [p \in Cells(band.shape) |-> band.at[p] >= u.threshold]]

\* self.mask = band > self.threshold
InitMask(u, band) ==
    [u EXCEPT !.mask = [p \in Cells(band.shape) |-> band.at[p] > u.threshold]]

\* The statements of _select_representative_pixels_from_band after the loop
FinishSelection(u, band, transform, window) ==
    [u EXCEPT
        !.selected_values =
            ReassignPixelValues(band, u.selected_pixels, u.raw_pixel_values),
        !.selected_coords =
            GetCoordinates(transform, u.selected_pixels, window.row_off, window.col_off)]

RECURSIVE SelectLoop(_, _, _, _)
\* The loop of _select_representative_pixels_from_band from position i (0-based) on
SelectLoop(u, band, sorted, i) ==
    IF i >= Len(sorted) THEN u
    ELSE SelectLoop(VisitPixel(u, band, sorted[i + 1], i), band, sorted, i + 1)

\* Unrasterizer._select_representative_pixels_from_band(band, transform, window),
\* run to its end on the instance u
SelectRepresentativePixelsFromBand(u, band, transform, window) ==
    FinishSelection(SelectLoop(InitMask(u, band), band, SortPixels(band), 0),
                    band, transform, window)

\* rasterio.windows.Window(col_off, row_off, width, height)
Window(col_off, row_off, width, height) ==
    [col_off |-> col_off, row_off |-> row_off, width |-> width, height |-> height]

\* The window of Unrasterizer.select_representative_pixels when none is given
FullWindow(raster) == Window(0, 0, raster.shape[2], raster.shape[1])

\* Unrasterizer.select_representative_pixels up to the loop: the mask and the
\* sorted pixels.  selected_pixels, _selected_indexes and _raw_pixel_values are
\* left as the previous call left them.
UnrasterizerBegin ==
    /\ self.cls = "Unrasterizer"
    /\ CanCall
    /\ calls' = calls + 1
    /\ exported' = NoExport
    /\ raised' = "none"
    /\ self' = InitMask(self, raster_data)
    /\ sorted_pixels' = SortPixels(raster_data)
    /\ idx' = 0
    /\ pc' = "loop"
    /\ UNCHANGED <<raster_data, window_shape, windows, results>>

\* One iteration of the loop
UnrasterizerVisit ==
    /\ pc = "loop"
    /\ idx < Len(sorted_pixels)
    /\ self' = VisitPixel(self, raster_data, sorted_pixels[idx + 1], idx)
    /\ idx' = idx + 1
    /\ UNCHANGED <<raster_data, pc, raised, calls, sorted_pixels,
                   window_shape, windows, results, exported>>

\* After the loop: the values, the coordinates, and the return
UnrasterizerFinish ==
    /\ pc = "loop"
    /\ idx = Len(sorted_pixels)
    /\ self' = FinishSelection(self, raster_data, Transform, FullWindow(raster_data))
    /\ pc' = "done"
    /\ sorted_pixels' = <<>>
    /\ idx' = 0
    /\ UNCHANGED <<raster_data, raised, calls, window_shape, windows, results, exported>>

\* --------------------------------------------------- WindowedUnrasterizer
CeilDiv(a, b) == (a + b - 1) \div b

\* _get_windows with the numbers of windows rounded down instead of up
GetWindowsFloor(width, height, shape) ==
    LET n_windows_x == width \div shape[1]
        n_windows_y == height \div shape[2]
    IN  [p \in 1 .. n_windows_x * n_windows_y |->
            LET i == (p - 1) \div n_windows_y
                j == (p - 1) % n_windows_y
            IN  Window(i * shape[1], j * shape[2], shape[1], shape[2])]

\* WindowedUnrasterizer._get_windows(raster_data, window_shape): the list built
\* from itertools.product(range(n_windows_x), range(n_windows_y))
GetWindows(width, height, shape) ==
    LET n_windows_x == CeilDiv(width, shape[1])
        n_windows_y == CeilDiv(height, shape[2])
    IN  [p \in 1 .. n_windows_x * n_windows_y |->
            LET i == (p - 1) \div n_windows_y
                j == (p - 1) % n_windows_y
            IN  Window(i * shape[1], j * shape[2], shape[1], shape[2])]

\* A read that takes the window's shape but not its offsets
ReadWindowAtOrigin(raster, window) ==
    LET n_rows == Max(Min(window.height, raster.shape[1] - window.row_off), 0)
        n_cols == Max(Min(window.width, raster.shape[2] - window.col_off), 0)
        shape == <<n_rows, n_cols>>
    IN  Array(shape, [p \in Cells(shape) |-> raster.at[p]])

\* raster_data.read(window=window)[0]: a read that is not boundless gives the part
\* of the window that lies inside the raster
ReadWindow(raster, window) ==
    LET n_rows == Max(Min(window.height, raster.shape[1] - window.row_off), 0)
        n_cols == Max(Min(window.width, raster.shape[2] - window.col_off), 0)
        shape == <<n_rows, n_cols>>
    IN  Array(shape, [p \in Cells(shape) |->
                        raster.at[<<p[1] + window.row_off, p[2] + window.col_off>>]])

Pending == [status |-> "pending", pixels |-> <<>>, values |-> <<>>, coords |-> <<>>]

\* select_representative_pixels_in_window on an Unrasterizer whose selected_pixels
\* list is one list shared by the tasks: it holds what the tasks that returned
\* before have appended
SelectRepresentativePixelsInWindowShared(u, band, transform, window) ==
    LET shared == Concat([p \in 1 .. Len(results) |-> results[p].pixels])
        unrasterizer ==
            SelectRepresentativePixelsFromBand(
                [NewUnrasterizer("Unrasterizer", 0, u.mask_width, u.threshold)
                    EXCEPT !.selected_pixels = shared],
                band, transform, window)
    IN  [status |-> "returned",
         pixels |-> unrasterizer.selected_pixels,
         values |-> unrasterizer.selected_values,
         coords |-> unrasterizer.selected_coords]

\* WindowedUnrasterizer.select_representative_pixels_in_window(band, transform,
\* window): a new Unrasterizer with this instance's mask_width and threshold
SelectRepresentativePixelsInWindow(u, band, transform, window) ==
    LET unrasterizer ==
            SelectRepresentativePixelsFromBand(
                NewUnrasterizer("Unrasterizer", 0, u.mask_width, u.threshold),
                band, transform, window)
    IN  [status |-> "returned",
         pixels |-> unrasterizer.selected_pixels,
         values |-> unrasterizer.selected_values,
         coords |-> unrasterizer.selected_coords]

\* WindowedUnrasterizer.select_representative_pixels up to executor.map: the
\* windows, and one task per window handed to the pool
WindowedBegin ==
    /\ self.cls = "WindowedUnrasterizer"
    /\ CanCall
    /\ calls' = calls + 1
    /\ exported' = NoExport
    /\ raised' = "none"
    /\ windows' = GetWindows(raster_data.shape[2], raster_data.shape[1], window_shape)
    /\ results' = [p \in 1 .. Len(windows') |-> Pending]
    /\ pc' = "pool"
    /\ UNCHANGED <<raster_data, self, sorted_pixels, idx, window_shape>>

\* A worker of the pool runs one task to its end, in any order
TaskReturns(p) ==
    /\ pc = "pool"
    /\ results[p].status = "pending"
    /\ results' = [results EXCEPT ![p] =
          SelectRepresentativePixelsInWindow(
              self, ReadWindow(raster_data, windows[p]), Transform, windows[p])]
    /\ UNCHANGED <<raster_data, self, pc, raised, calls, sorted_pixels, idx,
                   window_shape, windows, exported>>

\* A task ends with an exception in its worker (the worker runs out of memory
\* on its band, say).  Nothing in the task or around executor.map catches it:
\* executor.map raises it in the caller, and the call ends before any attribute
\* is assigned, and what the other tasks returned is dropped with the locals.
TaskRaises(p) ==
    /\ pc = "pool"
    /\ results[p].status = "pending"
    /\ pc' = "raised"
    /\ raised' = "WorkerError"
    /\ windows' = <<>>
    /\ results' = <<>>
    /\ UNCHANGED <<raster_data, self, calls, sorted_pixels, idx, window_shape, exported>>

AllReturned == \A p \in 1 .. Len(results) : results[p].status = "returned"

\* executor.map gives back every task's result, in the order of the windows, and
\* the three lists are concatenated
WindowedCollect ==
    /\ pc = "pool"
    /\ AllReturned
    /\ self' = [self EXCEPT
          !.selected_pixels = Concat([p \in 1 .. Len(results) |-> results[p].pixels]),
          !.selected_values = Concat([p \in 1 .. Len(results) |-> results[p].values]),
          !.selected_coords = Concat([p \in 1 .. Len(results) |-> results[p].coords])]
    /\ pc' = "done"
    /\ windows' = <<>>
    /\ results' = <<>>
    /\ UNCHANGED <<raster_data, raised, calls, sorted_pixels, idx, window_shape, exported>>

Next ==
    \/ BaseSelect
    \/ NaiveSelect
    \/ UnrasterizerBegin
    \/ UnrasterizerVisit
    \/ UnrasterizerFinish
    \/ ToGeojson
    \/ ToGeopandas

Spec == Init /\ [][Next]_vars

NextWindowed ==
    \/ WindowedBegin
    \/ \E p \in 1 .. Len(results) : TaskReturns(p)
    \/ \E p \in 1 .. Len(results) : TaskRaises(p)
    \/ WindowedCollect

SpecWindowed == InitWindowed /\ [][NextWindowed]_vars

\* _get_windows alone, on rasters of every extent up to MaxExtent x MaxExtent
NextWindows == WindowedBegin

SpecWindows == InitWindows /\ [][NextWindows]_vars

\* ------------------------------------------------------------- properties
AllCells == Cells(raster_data.shape)
NCells == raster_data.shape[1] * raster_data.shape[2]
PositiveSum == SumPositive(raster_data, AllCells)
Chebyshev(p, q) == Max(Abs(p[1] - q[1]), Abs(p[2] - q[2]))
Range(seq) == {seq[i] : i \in 1 .. Len(seq)}
Selected == Range(self.selected_pixels)

\* The values are finite and their sum is the sum of the band's positive cells:
\* with the common denominator den, sum(num) / den = PositiveSum
Conserved(values) ==
    /\ Len(values) >= 1
    /\ \A i \in 1 .. Len(values) : values[i].den # 0
    /\ SumSeq([i \in 1 .. Len(values) |-> values[i].num]) = PositiveSum * values[1].den

SelectedRawSum ==
    SumSeq([i \in 1 .. Len(self.selected_pixels) |->
               raster_data.at[self.selected_pixels[i]]])

SelectionDone == pc = "done" /\ self.cls \in {"NaiveUnrasterizer", "Unrasterizer"}

C2_Exclusion ==
    (self.cls = "Unrasterizer" /\ calls = 1 /\ self.mask_width >= 1) =>
        \A i, j \in 1 .. Len(self.selected_pixels) :
            i # j => Chebyshev(self.selected_pixels[i], self.selected_pixels[j])
                        >= self.mask_width

\* A finished first run with mask_width 2 that selected two pixels
C2_Witness ==
    /\ self.cls = "Unrasterizer"
    /\ calls = 1
    /\ pc = "done"
    /\ self.mask_width >= 2
    /\ Len(self.selected_pixels) >= 2

\* C3: NaiveUnrasterizer with n_pixels = k <= H*W leaves k pixels, k values and
\* k coordinates; the pixels are k distinct cells and no cell left out has a
\* value strictly greater than a selected cell's.
C3_TopK ==
    (self.cls = "NaiveUnrasterizer" /\ pc = "done") =>
        /\ self.n_pixels <= NCells
        /\ Len(self.selected_pixels) = self.n_pixels
        /\ Len(self.selected_values) = self.n_pixels
        /\ Len(self.selected_coords) = self.n_pixels
        /\ Cardinality(Selected) = self.n_pixels
        /\ Selected \subseteq AllCells
        /\ \A p \in Selected : \A q \in AllCells \ Selected :
              raster_data.at[q] <= raster_data.at[p]

\* A top-K run that had to choose: some but not all cells, of differing values
C3_Witness ==
    /\ self.cls = "NaiveUnrasterizer"
    /\ pc = "done"
    /\ self.n_pixels >= 1
    /\ self.n_pixels < NCells
    /\ \E p \in Selected : \E q \in AllCells \ Selected :
          raster_data.at[q] < raster_data.at[p]

FreshRun ==
    SelectRepresentativePixelsFromBand(
        NewUnrasterizer("Unrasterizer", 0, self.mask_width, self.threshold),
        raster_data, Transform, FullWindow(raster_data))

\* C5: whenever a call of Unrasterizer.select_representative_pixels has
\* finished, the pixels, values and coordinates are those of one run on a new
\* instance, also when it is the second call on the same instance.
C5_SameResultEveryCall ==
    (self.cls = "Unrasterizer" /\ pc = "done") =>
        /\ self.selected_pixels = FreshRun.selected_pixels
        /\ self.selected_values = FreshRun.selected_values
        /\ self.selected_coords = FreshRun.selected_coords

\* C8: a selection that returns with at least one pixel never carries a value
\* computed by dividing by a zero sum (the reweighting fails instead).
C8_ZeroSumRaises ==
    (SelectionDone /\ Len(self.selected_pixels) >= 1) =>
        \A i \in 1 .. Len(self.selected_values) : self.selected_values[i].den # 0

\* C9: a to_geojson or to_geopandas call made while selected_coords is empty
\* raises, and leaves the unrasterizer as it was.
C9_EmptyExportRaises ==
    [][(exported' # exported /\ exported'.status # "none"
            /\ Len(self.selected_coords) = 0)
          => (exported'.status = "RuntimeError" /\ self' = self)]_vars

\* An export that raised after a masked run that selected nothing
C9_Witness ==
    /\ exported.status = "RuntimeError"
    /\ self.cls = "Unrasterizer"
    /\ pc = "done"
    /\ Len(self.selected_pixels) = 0

\* The square centred on pixel that reaches mask_width cells in each of the
\* four directions, clamped to the band
CentredSquare(pixel) ==
    {p \in AllCells : Chebyshev(p, pixel) <= self.mask_width}

\* An iteration of the loop of the masked policy that selects its pixel
SelectsPixel ==
    /\ pc = "loop"
    /\ self.cls = "Unrasterizer"
    /\ Len(self'.selected_pixels) = Len(self.selected_pixels) + 1

\* C12: when the masked policy selects a cell, the cells it marks ineligible
\* are exactly those of the square centred on the cell that reaches mask_width
\* cells in each of the four directions, clamped to the band, and the raw value
\* it records is the sum of the strictly positive values in that square.
\* (mask_width = 0, where the code's sub-window is empty, is not held against
\* the claim.)
C12_CentredSquare ==
    [][(SelectsPixel /\ self.mask_width >= 1) =>
          LET pixel == self'.selected_pixels[Len(self'.selected_pixels)]
              square == CentredSquare(pixel)
          IN  /\ \A p \in AllCells : self'.mask[p] = (self.mask[p] /\ p \notin square)
              /\ self'.raw_pixel_values[Len(self'.raw_pixel_values)]
                    = SumPositive(raster_data, square)]_vars

\* The loop of the masked policy has visited all of sorted_pixels
LoopEnded == self.cls = "Unrasterizer" /\ pc = "loop" /\ idx = Len(sorted_pixels)

\* The cells the loop has visited so far, and how many times it visited p
Visited == {sorted_pixels[i] : i \in 1 .. idx}
TimesVisited(p) == Cardinality({i \in 1 .. idx : sorted_pixels[i] = p})

\* Cell p is selected, or is in the sub-window of a selected cell of value >= its own
SelectedOrCovered(p) ==
    \/ p \in Selected
    \/ \E s \in Selected :
          /\ raster_data.at[s] >= raster_data.at[p]
          /\ p \in WindowCells(GetPixelWindow(s, self.mask_width, self.mask_width),
                                raster_data.shape)

\* C13: when the loop of a masked run with mask_width >= 1 has ended, it has
\* visited every cell exactly once; from then on the mask is False everywhere
\* and every cell above the threshold is selected or lies in the exclusion
\* sub-window of a selected cell whose value is at least its own.
C13_Maximality ==
    (self.cls = "Unrasterizer" /\ self.mask_width >= 1) =>
        /\ LoopEnded => \A p \in AllCells : TimesVisited(p) = 1
        /\ (LoopEnded \/ pc = "done") =>
              /\ \A p \in AllCells : ~ self.mask[p]
              /\ \A p \in AllCells :
                    raster_data.at[p] > self.threshold => SelectedOrCovered(p)

\* A finished masked run that left a cell above the threshold unselected,
\* inside the sub-window of a selected cell
C13_Witness ==
    /\ self.cls = "Unrasterizer"
    /\ self.mask_width >= 1
    /\ pc = "done"
    /\ calls = 1
    /\ Len(self.selected_pixels) >= 1
    /\ \E p \in AllCells \ Selected :
          raster_data.at[p] > self.threshold /\ SelectedOrCovered(p)

\* ------------------------------------------------ properties of the tiling
\* The cells of the raster plane a window spans, and those of them in the raster
CellsOfWindow(w) ==
    (w.row_off .. w.row_off + w.height - 1) \X (w.col_off .. w.col_off + w.width - 1)
InWindow(p, w) == p \in CellsOfWindow(w)

\* The windows of the call, as _get_windows gives them
Wins == GetWindows(raster_data.shape[2], raster_data.shape[1], window_shape)

\* The raster-global pixels of the merged result: the cells whose coordinates
\* (local pixel + window offset, transformed) are in selected_coords
WindowedSelected ==
    {p \in AllCells : XY(Transform, p[1], p[2]) \in Range(self.selected_coords)}

\* The pixels the masked policy selects on the whole band
WholeSelected == Range(FreshRun.selected_pixels)

WindowedDone == self.cls = "WindowedUnrasterizer" /\ pc = "done"

\* A cell within mask_width cells of a cell of another window
NearBoundary(p) ==
    \E q \in AllCells :
        /\ Chebyshev(p, q) <= self.mask_width
        /\ ~ \E k \in 1 .. Len(Wins) : InWindow(p, Wins[k]) /\ InWindow(q, Wins[k])

\* No two cells of the band hold the same value
DistinctValues ==
    \A p, q \in AllCells : p # q => raster_data.at[p] # raster_data.at[q]

\* C6 as claimed: every pixel farther than mask_width from all window
\* boundaries is selected by the windowed run and by the masked policy on the
\* whole band, or by neither.  (Bands with equal cells, where the order of the
\* sort among them decides, are not held against the claim.)
C6_TilingEquivalence ==
    (WindowedDone /\ DistinctValues) =>
        LET whole == WholeSelected
            windowed == WindowedSelected
        IN  \A p \in AllCells :
                ~ NearBoundary(p) => (p \in windowed <=> p \in whole)

\* The cells that selecting pixel s on the whole band marks ineligible
Reach(s) ==
    WindowCells(GetPixelWindow(s, self.mask_width, self.mask_width), raster_data.shape)

\* No pixel of the set whole outside window w reaches into w
UndisturbedBy(whole, w) ==
    \A s \in whole : ~ InWindow(s, w) => Reach(s) \cap CellsOfWindow(w) = {}

\* No pixel that the whole-band run selects outside window w reaches into w
Undisturbed(w) == UndisturbedBy(WholeSelected, w)

\* No two cells above the threshold hold the same value
DistinctEligible ==
    \A p, q \in AllCells :
        (p # q /\ raster_data.at[p] > self.threshold /\ raster_data.at[q] > self.threshold)
            => raster_data.at[p] # raster_data.at[q]

\* C6 amended: when no two cells above the threshold hold the same value, the
\* two runs select the same pixels inside every window into which no exclusion
\* sub-window of a pixel selected by the whole-band run in another window
\* reaches (so everywhere, when there is one window).
C6_TilingEquivalenceAmended ==
    (WindowedDone /\ DistinctEligible) =>
        LET whole == WholeSelected
            windowed == WindowedSelected
            wins == Wins
        IN  \A k \in 1 .. Len(wins) :
                UndisturbedBy(whole, wins[k]) =>
                    windowed \cap CellsOfWindow(wins[k]) = whole \cap CellsOfWindow(wins[k])

\* Two runs that differ, with an undisturbed window (not the first) in which
\* both select the same pixel
C6_Witness ==
    /\ WindowedDone
    /\ DistinctValues
    /\ WindowedSelected # WholeSelected
    /\ \E k \in 2 .. Len(Wins) :
          /\ Undisturbed(Wins[k])
          /\ WindowedSelected \cap CellsOfWindow(Wins[k]) # {}

\* C7: the call does not end with the exception of one window's task when the
\* task of another window has returned its result.
C7_FailureTolerance ==
    [][(pc = "pool" /\ \E q \in 1 .. Len(results) : results[q].status = "returned")
          => pc' # "raised"]_vars

\* What a new Unrasterizer with the instance's mask_width and threshold computes
\* on the band of window w alone
AloneInWindow(w) ==
    SelectRepresentativePixelsFromBand(
        NewUnrasterizer("Unrasterizer", 0, self.mask_width, self.threshold),
        ReadWindow(raster_data, w), Transform, w)

PairwiseDisjoint(ws) ==
    \A k, l \in 1 .. Len(ws) : k # l => CellsOfWindow(ws[k]) \cap CellsOfWindow(ws[l]) = {}
Covered(ws) == UNION {CellsOfWindow(ws[k]) : k \in 1 .. Len(ws)}

\* C10 as claimed: the windows of _get_windows do not overlap and their union
\* is exactly the raster extent (no window extends past it).
C10_WindowPartition ==
    pc = "pool" => (PairwiseDisjoint(windows) /\ Covered(windows) = AllCells)

\* C10 amended: the windows do not overlap, every one has the full
\* window_shape and starts inside the extent, and together they cover the
\* extent; their union is the extent exactly when window_shape divides it, and
\* otherwise the last column or row of windows extends past the extent.
C10_WindowPartitionAmended ==
    pc = "pool" =>
        /\ PairwiseDisjoint(windows)
        /\ AllCells \subseteq Covered(windows)
        /\ \A k \in 1 .. Len(windows) :
              /\ windows[k].width = window_shape[1]
              /\ windows[k].height = window_shape[2]
              /\ 0 <= windows[k].col_off /\ windows[k].col_off < raster_data.shape[2]
              /\ 0 <= windows[k].row_off /\ windows[k].row_off < raster_data.shape[1]
        /\ (Covered(windows) = AllCells) <=>
              (raster_data.shape[2] % window_shape[1] = 0
                  /\ raster_data.shape[1] % window_shape[2] = 0)

\* Four or more windows, the last of which extend past the extent
C10_Witness ==
    /\ pc = "pool"
    /\ Len(windows) >= 4
    /\ Covered(windows) # AllCells

====
